---- MODULE Spec2Model ----
(***************************************************************************)
(* A model of the Alexa smart-home lambda of src/lambda_function.py: one   *)
(* directive in, vendor (Gooee cloud API) calls, one response out.         *)
(*                                                                         *)
(* Python dictionaries are records whose optional keys are options: the    *)
(* empty tuple for an absent key, a one-element tuple for a present one.   *)
(* A Python exception is the string of its class name.  messageId and      *)
(* timeOfSample (uuid4, clock) are left out of the envelopes.              *)
(***************************************************************************)
EXTENDS Integers, Sequences, FiniteSets, TLC

VARIABLES
    pc,             \* "idle": waiting for a directive, "done": lambda_handler returned
    request,        \* the directive lambda_handler was called with
    vendor,         \* what the vendor API answers during this invocation
    response,       \* what lambda_handler returned (or the exception it let escape)
    gets,           \* the GET requests issued, in order
    posts,          \* the POST /actions payloads issued, in order
    telemetry,      \* number of SENTRY_CLIENT.captureException() calls
    escaped,        \* the exception that left the routed handler, "none" if it returned
    SENTRY_CLIENT,  \* TRUE when the telemetry client is configured
    templates,      \* [space, device]: the capability lists of the two descriptors
    fnIn,           \* argument of the function under study (function specifications)
    fnOut           \* its result

vars == <<pc, request, vendor, response, gets, posts, telemetry, escaped,
          SENTRY_CLIENT, templates, fnIn, fnOut>>

-----------------------------------------------------------------------------
(* Options *)

None == <<>>
Some(v) == <<v>>
Has(o) == Len(o) > 0
Val(o) == o[1]

-----------------------------------------------------------------------------
(* JSON bodies the vendor API answers with *)

JList(items) == [type |-> "list", items |-> items, meta |-> None, states |-> None]
JDevice(meta) == [type |-> "object", items |-> <<>>, meta |-> meta, states |-> None]
JStates(states) == [type |-> "object", items |-> <<>>, meta |-> None, states |-> states]
JText == [type |-> "text", items |-> <<>>, meta |-> None, states |-> None]

Page(status, body) == [status |-> status, body |-> body]

-----------------------------------------------------------------------------
(* Vendor gateway *)

\* requests.codes.UNAUTHORIZED, FORBIDDEN / BAD_REQUEST, NOT_FOUND
StatusException(status) ==
    IF status \in {401, 403} THEN "AuthException"
    ELSE IF status \in {400, 404} THEN "BadRequestException"
    ELSE "none"

\* NextLink that finds no "next" link on any page.
NextLinkAbsent(pages, i) == 0

\* res.links.get('next', {}).get('url') for page i of a chain: the page after
\* it, 0 (no url) on the last page.
NextLink(pages, i) == IF i < Len(pages) THEN i + 1 ELSE 0

\* The while loop of g_get_request: page i of the chain is requested, url is the
\* "next" link (page i+1 of the chain, none on the last page).
RECURSIVE GetLoop(_, _, _)
GetLoop(pages, i, data) ==
    LET res == pages[i]
        exc == StatusException(res.status)
    IN  IF exc # "none" THEN [exc |-> exc, data |-> JList(<<>>), requested |-> i]
        ELSE IF res.body.type = "text"
             THEN [exc |-> "ValueError", data |-> JList(<<>>), requested |-> i]
        ELSE IF res.body.type = "list" /\ data.type # "list"
             THEN [exc |-> "TypeError", data |-> JList(<<>>), requested |-> i]
        ELSE LET new == IF res.body.type = "list"
                        THEN JList(data.items \o res.body.items)
                        ELSE res.body
             IN  IF NextLink(pages, i) # 0
                 THEN GetLoop(pages, NextLink(pages, i), new)
                 ELSE [exc |-> "none", data |-> new, requested |-> i]

g_get_request(pages) == GetLoop(pages, 1, JList(<<>>))

\* One log entry per page requested of a path.
GetLog(path, n) == [k \in 1..n |-> path]

g_post_action_request(status) == StatusException(status)

-----------------------------------------------------------------------------
(* Handler results: the exception raised ("none" when the handler returned),
   the value returned, and the vendor requests issued on the way *)

NoValue ==
    [shape |-> "pending", exc |-> "none", namespace |-> "", name |-> "",
     correlationToken |-> None, endpoint |-> None,
     payload |-> [type |-> None, endpoints |-> None], properties |-> None]

Envelope(namespace, name, token, endpoint, payload, properties) ==
    [shape |-> "envelope", exc |-> "none", namespace |-> namespace, name |-> name,
     correlationToken |-> token, endpoint |-> endpoint,
     payload |-> payload, properties |-> properties]

EmptyPayload == [type |-> None, endpoints |-> None]

Returned(value, g, p) == [exc |-> "none", value |-> value, gets |-> g, posts |-> p]
Raised(exc, g, p) == [exc |-> exc, value |-> NoValue, gets |-> g, posts |-> p]

-----------------------------------------------------------------------------
(* handle_discovery *)

SPACES_PATH == "/spaces/?_include=id,name"
DEVICES_PATH == "/devices/?_include=name,id&type__in=wim,bulb"

\* The for loop over the vendor records: a copy of the template of the
\* category with friendlyName and endpointId set from the record.
Appliances(template, items) ==
    [k \in 1..Len(items) |->
        [template |-> template, friendlyName |-> items[k].name,
         endpointId |-> items[k].id]]

\* DiscoverCategory without the except AuthException clause.
DiscoverCategoryStrict(template, pages) ==
    LET res == g_get_request(pages)
    IN  IF res.exc # "none"
        THEN [exc |-> res.exc, endpoints |-> <<>>, requested |-> res.requested]
        ELSE IF res.data.type # "list"
        THEN [exc |-> "TypeError", endpoints |-> <<>>, requested |-> res.requested]
        ELSE [exc |-> "none", endpoints |-> Appliances(template, res.data.items),
              requested |-> res.requested]

\* One try/except/else block of handle_discovery: AuthException is swallowed,
\* any other exception escapes.  Iterating a JSON object yields its keys
\* (strings), and indexing a string with 'name' is a TypeError.
DiscoverCategory(template, pages) ==
    LET res == g_get_request(pages)
    IN  IF res.exc = "AuthException"
        THEN [exc |-> "none", endpoints |-> <<>>, requested |-> res.requested]
        ELSE IF res.exc # "none"
        THEN [exc |-> res.exc, endpoints |-> <<>>, requested |-> res.requested]
        ELSE IF res.data.type # "list"
        THEN [exc |-> "TypeError", endpoints |-> <<>>, requested |-> res.requested]
        ELSE [exc |-> "none", endpoints |-> Appliances(template, res.data.items),
              requested |-> res.requested]

BearerOfPayload(req) ==
    IF Has(req.payload) THEN Val(req.payload).scopeToken ELSE None

\* handle_discovery once the bearer token is read (lines 232-276).
DiscoverEndpoints(env) ==
    LET spaces == DiscoverCategory("space", env.spaces)
        g1 == GetLog(SPACES_PATH, spaces.requested)
    IN  IF spaces.exc # "none" THEN Raised(spaces.exc, g1, <<>>)
        ELSE
        LET devices == DiscoverCategory("device", env.devices)
            g2 == g1 \o GetLog(DEVICES_PATH, devices.requested)
        IN  IF devices.exc # "none" THEN Raised(devices.exc, g2, <<>>)
            ELSE Returned(
                    Envelope("Alexa.Discovery", "Discover.Response", None, None,
                             [type |-> None,
                              endpoints |-> Some(spaces.endpoints \o devices.endpoints)],
                             None),
                    g2, <<>>)

\* handle_discovery without the except KeyError clause.
handle_discovery_unguarded(req, env) ==
    IF ~Has(BearerOfPayload(req))
    THEN Raised("KeyError", <<>>, <<>>)
    ELSE DiscoverEndpoints(env)

\* The KeyError of a missing payload.scope.token is answered with [].
handle_discovery(req, env) ==
    IF ~Has(BearerOfPayload(req))
    THEN Returned([NoValue EXCEPT !.shape = "list"], <<>>, <<>>)
    ELSE DiscoverEndpoints(env)

-----------------------------------------------------------------------------
(* Fields read from directive.endpoint by the endpoint handlers *)

HasEndpointFields(req) ==
    /\ Has(req.endpoint)
    /\ Has(Val(req.endpoint).cookieType)
    /\ Has(Val(req.endpoint).scopeToken)

EndpointId(req) == Val(req.endpoint).endpointId
EndpointType(req) == Val(Val(req.endpoint).cookieType)
EndpointToken(req) == Val(Val(req.endpoint).scopeToken)

ActionPayload(name, type, value, type_, endpoint) ==
    [name |-> name, type |-> type, value |-> value,
     key |-> type_, target |-> endpoint, origin |-> "alexa"]

ActionValue(transition_time, level, delta) ==
    [transition_time |-> transition_time, level |-> level, delta |-> delta]

TextValue(s) == [kind |-> "text", text |-> s, number |-> 0]
NumberValue(n) == [kind |-> "number", text |-> "", number |-> n]
HealthValue(s) == [kind |-> "health", text |-> s, number |-> 0]

Property(namespace, name, value) ==
    [namespace |-> namespace, name |-> name, value |-> value]

ResponseEndpoint(req) ==
    Some([endpointId |-> EndpointId(req), scopeToken |-> Some(EndpointToken(req))])

-----------------------------------------------------------------------------
(* handle_power_controller *)

\* PowerValue that answers "OFF" to TurnOff alone.
PowerValueOffByName(request_name) == IF request_name = "TurnOff" THEN "OFF" ELSE "ON"

PowerValue(request_name) == IF request_name = "TurnOn" THEN "ON" ELSE "OFF"

PowerPayload(req) ==
    LET value == PowerValue(req.name)
    IN  ActionPayload(IF value = "ON" THEN "Alexa ON request" ELSE "Alexa OFF request",
                      IF value = "ON" THEN "on" ELSE "off",
                      ActionValue(2, None, None),
                      EndpointType(req), EndpointId(req))

handle_power_controller(req, env) ==
    IF ~HasEndpointFields(req) THEN Raised("KeyError", <<>>, <<>>)
    ELSE
    LET payload == PowerPayload(req)
        exc == g_post_action_request(env.postStatus)
    IN  IF exc # "none" THEN Raised(exc, <<>>, <<payload>>)
        ELSE IF ~Has(req.correlationToken) THEN Raised("KeyError", <<>>, <<payload>>)
        ELSE Returned(
                Envelope("Alexa", "Response", req.correlationToken,
                         ResponseEndpoint(req), EmptyPayload,
                         Some(<<Property("Alexa.PowerController", "powerState",
                                         TextValue(PowerValue(req.name)))>>)),
                <<>>, <<payload>>)

-----------------------------------------------------------------------------
(* handle_brightness_controller *)

\* abs() taken for the identity.
AbsSigned(n) == n

Abs(n) == IF n < 0 THEN -n ELSE n

handle_brightness_controller(req, env) ==
    IF ~Has(req.payload) \/ ~HasEndpointFields(req) THEN Raised("KeyError", <<>>, <<>>)
    ELSE
    LET request_data == Val(req.payload)
        type_ == EndpointType(req)
        endpoint == EndpointId(req)
        value == IF Has(request_data.brightness) THEN request_data.brightness
                 ELSE request_data.brightnessDelta
        payload ==
            IF Has(request_data.brightness)
            THEN ActionPayload("Alexa brightness request", "dim",
                               ActionValue(1, value, None), type_, endpoint)
            ELSE ActionPayload("Alexa brightnessDelta request", "adjust",
                               ActionValue(1, None, value), type_, endpoint)
    IN  IF ~Has(value) THEN Raised("TypeError", <<>>, <<>>)   \* abs(None)
        ELSE
        LET exc == g_post_action_request(env.postStatus)
        IN  IF exc # "none" THEN Raised(exc, <<>>, <<payload>>)
            ELSE IF ~Has(req.correlationToken) THEN Raised("KeyError", <<>>, <<payload>>)
            ELSE Returned(
                    Envelope("Alexa", "Response", req.correlationToken,
                             ResponseEndpoint(req), EmptyPayload,
                             Some(<<Property(req.namespace, "brightness",
                                             NumberValue(Abs(Val(value))))>>)),
                    <<>>, <<payload>>)

-----------------------------------------------------------------------------
(* handle_auth *)

\* handle_auth with the correlation token of the directive copied into the header.
handle_auth_echo(req) ==
    IF req.name = "AcceptGrant"
    THEN Returned(Envelope("Alexa.Authorization", "AcceptGrant.Response",
                           req.correlationToken, None, EmptyPayload, None), <<>>, <<>>)
    ELSE Returned([NoValue EXCEPT !.shape = "null"], <<>>, <<>>)

\* A name other than AcceptGrant falls off the end of the function: None.
handle_auth(req) ==
    IF req.name = "AcceptGrant"
    THEN Returned(Envelope("Alexa.Authorization", "AcceptGrant.Response", None, None,
                           EmptyPayload, None), <<>>, <<>>)
    ELSE Returned([NoValue EXCEPT !.shape = "null"], <<>>, <<>>)

-----------------------------------------------------------------------------
(* g_get_state *)

DEVICE_PATH == "/devices/{id}"
DEVICE_STATES_PATH == "/spaces/{id}/device_states"

State(dim, onoff, is_online) == [dim |-> dim, onoff |-> onoff, is_online |-> is_online]

\* counter[key] after counter.update(val) for every member: the sum of the
\* values the members carry under the key, a member without the key adding nothing.
RECURSIVE CounterDim(_)
CounterDim(states) ==
    IF states = <<>> THEN 0
    ELSE (IF Has(Head(states).dim) THEN Val(Head(states).dim) ELSE 0)
         + CounterDim(Tail(states))

RECURSIVE CounterOnoff(_)
CounterOnoff(states) ==
    IF states = <<>> THEN 0
    ELSE (IF Has(Head(states).onoff) /\ Val(Head(states).onoff) THEN 1 ELSE 0)
         + CounterOnoff(Tail(states))

\* int(a / n): true division, then truncation toward zero.
IntOfQuotient(a, n) == IF a >= 0 THEN a \div n ELSE -((-a) \div n)

\* SpaceState without the except ZeroDivisionError clause.
SpaceStateUncaught(states) ==
    IF Len(states) = 0
    THEN [exc |-> "ZeroDivisionError", state |-> State(None, None, None)]
    ELSE [exc |-> "none",
          state |-> State(Some(IntOfQuotient(CounterDim(states), Len(states))),
                          Some(CounterOnoff(states) # 0),
                          Some(TRUE))]

\* The space branch once the response is fetched (lines 205-219).
SpaceState(states) ==
    IF Len(states) = 0
    THEN [exc |-> "ParentSpaceException", state |-> State(None, None, None)]
    ELSE [exc |-> "none",
          state |-> State(Some(IntOfQuotient(CounterDim(states), Len(states))),
                          Some(CounterOnoff(states) # 0),
                          Some(TRUE))]

\* Indexing a JSON list with a string is a TypeError, a missing key a KeyError.
g_get_state(type_, pages) ==
    LET res == g_get_request(pages)
        path == IF type_ = "device" THEN DEVICE_PATH ELSE DEVICE_STATES_PATH
        log == GetLog(path, res.requested)
        fail(exc) == [exc |-> exc, state |-> State(None, None, None), gets |-> log]
    IN  IF res.exc # "none" THEN fail(res.exc)
        ELSE IF res.data.type = "list" THEN fail("TypeError")
        ELSE IF type_ = "device"
        THEN IF ~Has(res.data.meta) THEN fail("KeyError")
             ELSE [exc |-> "none", state |-> Val(res.data.meta), gets |-> log]
        ELSE IF ~Has(res.data.states) THEN fail("KeyError")
             ELSE LET agg == SpaceState(Val(res.data.states))
                  IN  [exc |-> agg.exc, state |-> agg.state, gets |-> log]

-----------------------------------------------------------------------------
(* CAPABILITY_TO_META and handle_report_state *)

GooeeName(amz_name) ==
    CASE amz_name = "powerState" -> "onoff"
      [] amz_name \in {"brightness", "powerLevel", "percentage"} -> "dim"
      [] amz_name = "connectivity" -> "is_online"

StateField(gooee_state, gooee_name) ==
    CASE gooee_name = "onoff" -> gooee_state.onoff
      [] gooee_name = "dim" -> gooee_state.dim
      [] gooee_name = "is_online" -> gooee_state.is_online

TransFunc(amz_name, val) ==
    CASE amz_name = "powerState" -> TextValue(IF val THEN "ON" ELSE "OFF")
      [] amz_name \in {"brightness", "powerLevel", "percentage"} -> NumberValue(val)
      [] amz_name = "connectivity" -> HealthValue(IF val THEN "OK" ELSE "UNREACHABLE")

\* A capability of a descriptor: its interface and, when it has a properties
\* block, the retrievable flag and the name of properties.supported[0].
Capability(interface, properties) == [interface |-> interface, properties |-> properties]
Supported(name, retrievable) == Some([name |-> name, retrievable |-> retrievable])

\* Retrievable that takes every properties block for a retrievable one.
RetrievableUnchecked(capability) == Has(capability.properties)

Retrievable(capability) ==
    Has(capability.properties) /\ Val(capability.properties).retrievable

\* The for loop over the capabilities (lines 435-461).
RECURSIVE ReportProperties(_, _)
ReportProperties(capabilities, gooee_state) ==
    IF capabilities = <<>> THEN [exc |-> "none", properties |-> <<>>]
    ELSE
    LET capability == Head(capabilities)
        rest == ReportProperties(Tail(capabilities), gooee_state)
    IN  IF ~Retrievable(capability) THEN rest
        ELSE
        LET amz_name == Val(capability.properties).name
            field == StateField(gooee_state, GooeeName(amz_name))
        IN  IF ~Has(field)
            THEN [exc |-> "MetaNotAvailableException", properties |-> <<>>]
            ELSE IF rest.exc # "none" THEN rest
            ELSE [exc |-> "none",
                  properties |->
                      <<Property(capability.interface, amz_name,
                                 TransFunc(amz_name, Val(field)))>> \o rest.properties]

handle_report_state(req, env, tmpl) ==
    IF ~HasEndpointFields(req) THEN Raised("KeyError", <<>>, <<>>)
    ELSE
    LET type_ == EndpointType(req)
        got == g_get_state(type_, env.state)
    IN  IF got.exc # "none" THEN Raised(got.exc, got.gets, <<>>)
        ELSE
        LET capabilities == IF type_ = "space" THEN tmpl.space ELSE tmpl.device
            props == ReportProperties(capabilities, got.state)
        IN  IF props.exc # "none" THEN Raised(props.exc, got.gets, <<>>)
            ELSE IF ~Has(req.correlationToken) THEN Raised("KeyError", got.gets, <<>>)
            ELSE Returned(
                    Envelope("Alexa", "StateReport", req.correlationToken,
                             ResponseEndpoint(req), EmptyPayload,
                             Some(props.properties)),
                    got.gets, <<>>)

-----------------------------------------------------------------------------
(* lambda_handler *)

\* Route with the namespace tests ahead of the name tests.
RouteNamespaceFirst(header) ==
    IF header.namespace = "Alexa.PowerController" THEN "handle_power_controller"
    ELSE IF header.namespace = "Alexa.BrightnessController"
         THEN "handle_brightness_controller"
    ELSE IF header.namespace = "Alexa.Authorization" THEN "handle_auth"
    ELSE IF header.name = "Discover" THEN "handle_discovery"
    ELSE IF header.name = "ReportState" THEN "handle_report_state"
    ELSE "raise"

Route(header) ==
    IF header.name = "Discover" THEN "handle_discovery"
    ELSE IF header.name = "ReportState" THEN "handle_report_state"
    ELSE IF header.namespace = "Alexa.PowerController" THEN "handle_power_controller"
    ELSE IF header.namespace = "Alexa.BrightnessController"
         THEN "handle_brightness_controller"
    ELSE IF header.namespace = "Alexa.Authorization" THEN "handle_auth"
    ELSE "raise"

Dispatch(req, env, tmpl) ==
    LET route == Route(req)
    IN  CASE route = "handle_discovery" -> handle_discovery(req, env)
          [] route = "handle_report_state" -> handle_report_state(req, env, tmpl)
          [] route = "handle_power_controller" -> handle_power_controller(req, env)
          [] route = "handle_brightness_controller" ->
                handle_brightness_controller(req, env)
          [] route = "handle_auth" -> handle_auth(req)
          [] OTHER -> Raised("Exception", <<>>, <<>>)

\* The correlation token of the error envelope (lines 124-128): the third
\* conjunct reads the header of the envelope under construction.
ErrorToken(req, error_header_token) ==
    IF /\ req.name # "Discover"
       /\ req.name # "AddOrUpdateReport"
       /\ Has(error_header_token)
    THEN req.correlationToken
    ELSE error_header_token

ErrorType(exc) ==
    CASE exc = "BadRequestException" -> "NO_SUCH_ENDPOINT"
      [] exc = "AuthException" -> "INVALID_AUTHORIZATION_CREDENTIAL"
      [] exc = "ParentSpaceException" -> "INVALID_DIRECTIVE"
      [] exc = "MetaNotAvailableException" -> "ENDPOINT_UNREACHABLE"
      [] OTHER -> "INTERNAL_ERROR"

\* SkipsSentry with the early return of the MetaNotAvailableException branch lost.
SkipsSentryParentOnly(exc) == exc = "ParentSpaceException"

\* The two branches that return before SENTRY_CLIENT.captureException().
SkipsSentry(exc) == exc \in {"ParentSpaceException", "MetaNotAvailableException"}

\* The except block (lines 103-147): [value, captured].  Building the envelope
\* reads directive.endpoint.endpointId; when the directive has no endpoint the
\* KeyError leaves lambda_handler.
ErrorResponse(req, exc, sentry) ==
    IF ~Has(req.endpoint)
    THEN [value |-> [NoValue EXCEPT !.shape = "raised", !.exc = "KeyError"],
          captured |-> 0]
    ELSE [value |->
              Envelope("Alexa", "ErrorResponse", ErrorToken(req, None),
                       Some([endpointId |-> EndpointId(req), scopeToken |-> None]),
                       [type |-> Some(ErrorType(exc)), endpoints |-> None], None),
          captured |-> IF sentry /\ ~SkipsSentry(exc) THEN 1 ELSE 0]

\* What lambda_handler hands back for the outcome res of the routed handler.
Outcome(req, sentry, res) ==
    IF res.exc = "none"
    THEN [value |-> res.value, gets |-> res.gets, posts |-> res.posts,
          captured |-> 0, exc |-> "none"]
    ELSE ErrorResponse(req, res.exc, sentry)
         @@ [gets |-> res.gets, posts |-> res.posts, exc |-> res.exc]

lambda_handler(req, env, sentry, tmpl) ==
    Outcome(req, sentry, Dispatch(req, env, tmpl))

-----------------------------------------------------------------------------
(* Directives *)

Names ==
    {"Discover", "ReportState", "TurnOn", "TurnOff", "SetBrightness",
     "AdjustBrightness", "AcceptGrant", "AddOrUpdateReport", "unhandled"}

Namespaces ==
    {"Alexa.Discovery", "Alexa", "Alexa.PowerController",
     "Alexa.BrightnessController", "Alexa.Authorization", "unhandled"}

CorrelationTokens == {None, Some("token-1"), Some("token-2")}

EndpointIds == {"appliance-001", "appliance-002"}

\* No endpoint object, an endpoint with its endpointId alone, or a full one.
Endpoints ==
    {None}
    \cup {Some([endpointId |-> id, cookieType |-> None, scopeToken |-> None]) :
            id \in EndpointIds}
    \cup {Some([endpointId |-> id, cookieType |-> Some(t), scopeToken |-> Some("bearer")]) :
            id \in EndpointIds, t \in {"device", "space"}}

DirectivePayload(scopeToken, brightness, brightnessDelta) ==
    Some([scopeToken |-> scopeToken, brightness |-> brightness,
          brightnessDelta |-> brightnessDelta])

Payloads ==
    {None,
     DirectivePayload(None, None, None),
     DirectivePayload(Some("bearer"), None, None),
     DirectivePayload(None, Some(42), None),
     DirectivePayload(None, None, Some(-25)),
     DirectivePayload(None, Some(42), Some(-25))}

Requests ==
    [name : Names, namespace : Namespaces, correlationToken : CorrelationTokens,
     endpoint : Endpoints, payload : Payloads]

-----------------------------------------------------------------------------
(* What the vendor API answers *)

Item(id, name) == [id |-> id, name |-> name]

\* Answers to a list request: empty, one page, two pages, refused, not found,
\* refused on the second page, an error page that is no JSON.
ListChains(a, b) ==
    {<<Page(200, JList(<<>>))>>,
     <<Page(200, JList(<<a, b>>))>>,
     <<Page(200, JList(<<a>>)), Page(200, JList(<<b>>))>>,
     <<Page(401, JText)>>,
     <<Page(404, JText)>>,
     <<Page(200, JList(<<a>>)), Page(403, JText)>>,
     <<Page(500, JText)>>}

SpacesChains == ListChains(Item("space-1", "Kitchen"), Item("space-2", "Hall"))
DevicesChains == ListChains(Item("device-1", "Lamp"), Item("device-2", "Bulb"))

StateErrorChains ==
    {<<Page(401, JText)>>, <<Page(400, JText)>>, <<Page(500, JText)>>,
     <<Page(200, JList(<<>>))>>}

\* GET /devices/{id}: the meta list as a name -> value mapping, any entry absent.
DeviceChains ==
    {<<Page(200, JDevice(Some(State(dim, onoff, is_online))))>> :
        dim \in {None, Some(100)}, onoff \in {None, Some(TRUE)},
        is_online \in {None, Some(FALSE)}}
    \cup {<<Page(200, JDevice(None))>>}
    \cup StateErrorChains

Member(dim, onoff) == [dim |-> dim, onoff |-> onoff]

\* GET /spaces/{id}/device_states: the states of the member devices.
SpaceChains ==
    {<<Page(200, JStates(Some(states)))>> :
        states \in {<<>>,
                    <<Member(Some(100), Some(TRUE)), Member(Some(0), Some(FALSE))>>,
                    <<Member(Some(1), Some(FALSE)), Member(Some(2), Some(FALSE))>>,
                    <<Member(Some(100), None)>>,
                    <<Member(None, Some(TRUE)), Member(Some(100), Some(FALSE))>>,
                    <<Member(None, None)>>}}
    \cup {<<Page(200, JStates(None))>>}
    \cup StateErrorChains

PostStatuses == {200, 401, 403, 400, 404, 500}

NoVendor == [spaces |-> <<>>, devices |-> <<>>, state |-> <<>>, postStatus |-> 0]

-----------------------------------------------------------------------------
(* Capability descriptors (space-template.json, device-template.json) *)

CapAlexa == Capability("Alexa", None)
CapPower == Capability("Alexa.PowerController", Supported("powerState", TRUE))
CapBrightness == Capability("Alexa.BrightnessController", Supported("brightness", TRUE))
CapPowerLevel == Capability("Alexa.PowerLevelController", Supported("powerLevel", FALSE))
CapPercentage == Capability("Alexa.PercentageController", Supported("percentage", TRUE))
CapHealth == Capability("Alexa.EndpointHealth", Supported("connectivity", TRUE))

TemplatePairs ==
    {[space |-> <<CapAlexa, CapPower, CapBrightness>>,
      device |-> <<CapAlexa, CapPower, CapBrightness, CapHealth>>],
     [space |-> <<CapAlexa, CapPower, CapPowerLevel, CapPercentage, CapHealth>>,
      device |-> <<CapHealth, CapPowerLevel, CapPercentage>>]}

-----------------------------------------------------------------------------
(* The lambda as a state machine: one action per route of lambda_handler *)

Init ==
    /\ pc = "idle"
    /\ request = <<>>
    /\ vendor = NoVendor
    /\ response = NoValue
    /\ gets = <<>>
    /\ posts = <<>>
    /\ telemetry = 0
    /\ escaped = "none"
    /\ SENTRY_CLIENT \in BOOLEAN
    /\ templates \in TemplatePairs
    /\ fnIn = <<>>
    /\ fnOut = <<>>

Complete(req, env, out) ==
    /\ pc' = "done"
    /\ request' = req
    /\ vendor' = env
    /\ response' = out.value
    /\ gets' = out.gets
    /\ posts' = out.posts
    /\ telemetry' = out.captured
    /\ escaped' = out.exc
    /\ UNCHANGED <<SENTRY_CLIENT, templates, fnIn, fnOut>>

Invoke(req, env) ==
    Complete(req, env, lambda_handler(req, env, SENTRY_CLIENT, templates))

\* The vendor answers only the requests that are made: the inputs of a route
\* are drawn when the directive has the fields its handler reads before the
\* first vendor call.
Discover ==
    /\ pc = "idle"
    /\ \E req \in Requests :
        /\ Route(req) = "handle_discovery"
        /\ IF Has(BearerOfPayload(req))
           THEN \E s \in SpacesChains, d \in DevicesChains :
                    Invoke(req, [NoVendor EXCEPT !.spaces = s, !.devices = d])
           ELSE Invoke(req, NoVendor)

ReportState ==
    /\ pc = "idle"
    /\ \E req \in Requests :
        /\ Route(req) = "handle_report_state"
        /\ IF HasEndpointFields(req)
           THEN \E c \in (IF EndpointType(req) = "device"
                          THEN DeviceChains ELSE SpaceChains) :
                    Invoke(req, [NoVendor EXCEPT !.state = c])
           ELSE Invoke(req, NoVendor)

PowerController ==
    /\ pc = "idle"
    /\ \E req \in Requests :
        /\ Route(req) = "handle_power_controller"
        /\ IF HasEndpointFields(req)
           THEN \E status \in PostStatuses :
                    Invoke(req, [NoVendor EXCEPT !.postStatus = status])
           ELSE Invoke(req, NoVendor)

BrightnessController ==
    /\ pc = "idle"
    /\ \E req \in Requests :
        /\ Route(req) = "handle_brightness_controller"
        /\ IF HasEndpointFields(req) /\ Has(req.payload)
           THEN \E status \in PostStatuses :
                    Invoke(req, [NoVendor EXCEPT !.postStatus = status])
           ELSE Invoke(req, NoVendor)

Authorization ==
    /\ pc = "idle"
    /\ \E req \in Requests :
        /\ Route(req) = "handle_auth"
        /\ Invoke(req, NoVendor)

Unsupported ==
    /\ pc = "idle"
    /\ \E req \in Requests :
        /\ Route(req) = "raise"
        /\ Invoke(req, NoVendor)

\* The invocation is over: nothing is kept for the next one.
Return ==
    /\ pc = "done"
    /\ pc' = "idle"
    /\ request' = <<>>
    /\ vendor' = NoVendor
    /\ response' = NoValue
    /\ gets' = <<>>
    /\ posts' = <<>>
    /\ telemetry' = 0
    /\ escaped' = "none"
    /\ UNCHANGED <<SENTRY_CLIENT, templates, fnIn, fnOut>>

Next ==
    \/ Discover
    \/ ReportState
    \/ PowerController
    \/ BrightnessController
    \/ Authorization
    \/ Unsupported
    \/ Return

Spec == Init /\ [][Next]_vars

-----------------------------------------------------------------------------
(* Properties *)

Done == pc = "done"

IsErrorEnvelope(r) == r.shape = "envelope" /\ r.name = "ErrorResponse"

ErrorTypeOf(r) == Val(r.payload.type)

\* C1: whenever an exception leaves the routed handler (or the routing itself),
\* lambda_handler returns an ErrorResponse envelope, lets no exception out, and
\* the envelope carries the endpointId of the directive; this for every
\* directive, those without an endpoint object included.
C1_ErrorEnvelopeForEveryFailure ==
    (Done /\ escaped # "none") =>
        /\ IsErrorEnvelope(response)
        /\ Has(request.endpoint) =>
              /\ Has(response.endpoint)
              /\ Val(response.endpoint).endpointId = Val(request.endpoint).endpointId

\* C2: an ErrorResponse envelope echoes the correlation token of a directive
\* that is not Discover and has one, and carries none for Discover or for a
\* directive without a token.
C2_ErrorEnvelopeEchoesToken ==
    (Done /\ IsErrorEnvelope(response)) =>
        response.correlationToken =
            (IF request.name # "Discover" THEN request.correlationToken ELSE None)

EchoingRoutes ==
    {"handle_power_controller", "handle_brightness_controller", "handle_report_state"}

\* C3: a PowerController, BrightnessController or ReportState directive whose
\* handler returns is answered with a Response / StateReport envelope whose
\* correlation token is the one of the directive; a Discover.Response and an
\* AcceptGrant.Response carry no correlation token, whatever the directive holds.
C3_SuccessEchoesToken ==
    Done =>
        /\ (Route(request) \in EchoingRoutes /\ escaped = "none") =>
              /\ response.shape = "envelope"
              /\ response.name \in {"Response", "StateReport"}
        /\ (response.shape = "envelope" /\ response.name \in {"Response", "StateReport"}) =>
              /\ Has(request.correlationToken)
              /\ response.correlationToken = request.correlationToken
        /\ (response.shape = "envelope"
            /\ response.name \in {"Discover.Response", "AcceptGrant.Response"}) =>
              response.correlationToken = None

C3_Witness ==
    /\ Done
    /\ Route(request) = "handle_report_state"
    /\ response.name = "StateReport"
    /\ response.correlationToken = Some("token-2")

\* C4: with a telemetry client configured and a directive that carries an
\* endpoint, the error type and the number of telemetry reports follow the
\* error table; an unrouted directive is an INTERNAL_ERROR with one report; a
\* handler that returns (a discovery degraded on AuthError included) reports nothing.
C4_ErrorTable ==
    (Done /\ SENTRY_CLIENT) =>
        /\ (Route(request) = "raise") => escaped = "Exception"
        /\ (escaped = "none") => (telemetry = 0 /\ ~IsErrorEnvelope(response))
        /\ (escaped # "none" /\ Has(request.endpoint)) =>
              /\ IsErrorEnvelope(response)
              /\ <<ErrorTypeOf(response), telemetry>> =
                    CASE escaped = "AuthException" ->
                            <<"INVALID_AUTHORIZATION_CREDENTIAL", 1>>
                      [] escaped = "BadRequestException" -> <<"NO_SUCH_ENDPOINT", 1>>
                      [] escaped = "ParentSpaceException" -> <<"INVALID_DIRECTIVE", 0>>
                      [] escaped = "MetaNotAvailableException" ->
                            <<"ENDPOINT_UNREACHABLE", 0>>
                      [] OTHER -> <<"INTERNAL_ERROR", 1>>

C4_Witness ==
    /\ Done
    /\ SENTRY_CLIENT
    /\ escaped = "MetaNotAvailableException"
    /\ IsErrorEnvelope(response)
    /\ telemetry = 0

\* C5: a Discover directive without payload.scope.token is answered with the
\* empty list, not an error envelope, and no vendor request is issued.
C5_DiscoverWithoutToken ==
    (Done /\ request.name = "Discover" /\ ~Has(BearerOfPayload(request))) =>
        /\ gets = <<>>
        /\ posts = <<>>
        /\ response.shape = "list"
        /\ escaped = "none"

C5_Witness ==
    /\ Done
    /\ request.name = "Discover"
    /\ Has(request.payload)
    /\ ~Has(BearerOfPayload(request))
    /\ response.shape = "list"

DiscoveryRan ==
    Done /\ Route(request) = "handle_discovery" /\ Has(BearerOfPayload(request))

Listed(res) == res.exc = "none" /\ res.data.type = "list"
Refused(res) == res.exc = "AuthException"

\* All requests of the group list, then all requests of the device list, at
\* least one of each.
BothInOrder(log) ==
    \E n \in 1..(Len(log) - 1) :
        /\ \A k \in 1..n : log[k] = SPACES_PATH
        /\ \A k \in (n + 1)..Len(log) : log[k] = DEVICES_PATH

\* One endpoint per vendor record, in order, named and identified by its record.
EndpointsOf(template, res) ==
    IF Listed(res)
    THEN [k \in 1..Len(res.data.items) |->
            [template |-> template, friendlyName |-> res.data.items[k].name,
             endpointId |-> res.data.items[k].id]]
    ELSE <<>>

IsDiscoverResponse(r) ==
    r.shape = "envelope" /\ r.name = "Discover.Response" /\ Has(r.payload.endpoints)

\* What C6 says of the endpoint list, for the answers sp and dv to the two fetches.
DiscoveryEndpoints(sp, dv) ==
    ((Listed(sp) \/ Refused(sp)) /\ (Listed(dv) \/ Refused(dv))) =>
        /\ IsDiscoverResponse(response)
        /\ Val(response.payload.endpoints) =
              EndpointsOf("space", sp) \o EndpointsOf("device", dv)

\* C6 as stated: in a Discover with a bearer token the group fetch and the
\* device fetch are both issued, in that order, whatever the outcome of the
\* first; a category failing with AuthError contributes nothing and the other
\* one everything; both succeeding, one endpoint per space then one per device.
C6_BothFetchesWhateverTheFirst ==
    DiscoveryRan =>
        /\ BothInOrder(gets)
        /\ DiscoveryEndpoints(g_get_request(vendor.spaces), g_get_request(vendor.devices))

\* C6 amended: the device fetch follows the group fetch when the group fetch
\* returns a list or fails with AuthError, and is not issued when the group
\* fetch fails in any other way; the endpoint list is as stated.
C6_DeviceFetchAfterListOrAuthError ==
    DiscoveryRan =>
        LET sp == g_get_request(vendor.spaces)
            dv == g_get_request(vendor.devices)
        IN  /\ gets # <<>> /\ gets[1] = SPACES_PATH
            /\ (Listed(sp) \/ Refused(sp)) => BothInOrder(gets)
            /\ ~(Listed(sp) \/ Refused(sp)) =>
                  /\ \A k \in 1..Len(gets) : gets[k] = SPACES_PATH
                  /\ escaped # "none"
            /\ DiscoveryEndpoints(sp, dv)

C6_Witness ==
    /\ DiscoveryRan
    /\ Refused(g_get_request(vendor.spaces))
    /\ Listed(g_get_request(vendor.devices))
    /\ IsDiscoverResponse(response)
    /\ Len(Val(response.payload.endpoints)) = 2
    /\ Val(response.payload.endpoints)[2].friendlyName = "Bulb"

-----------------------------------------------------------------------------
(* g_get_state on a space, as a function of the device_states response *)

MaxMembers == 2

DimValues == {0, 1, 100}

MemberStates ==
    {Member(dim, onoff) :
        dim \in {None} \cup {Some(v) : v \in DimValues},
        onoff \in {None, Some(TRUE), Some(FALSE)}}

MemberCollections == UNION {[1..n -> MemberStates] : n \in 0..MaxMembers}

InitAgg ==
    /\ pc = "call"
    /\ fnIn \in MemberCollections
    /\ fnOut = <<>>
    /\ request = <<>>
    /\ vendor = NoVendor
    /\ response = NoValue
    /\ gets = <<>>
    /\ posts = <<>>
    /\ telemetry = 0
    /\ escaped = "none"
    /\ SENTRY_CLIENT = FALSE
    /\ templates \in TemplatePairs

GetSpaceState ==
    /\ pc = "call"
    /\ pc' = "returned"
    /\ fnOut' = g_get_state("space", <<Page(200, JStates(Some(fnIn)))>>)
    /\ UNCHANGED <<fnIn, request, vendor, response, gets, posts, telemetry, escaped,
                   SENTRY_CLIENT, templates>>

NextAgg == GetSpaceState

SpecAgg == InitAgg /\ [][NextAgg]_vars

\* The members of a collection that carry a dim value, and the sum of these values.
Reporting(states) == {k \in 1..Len(states) : Has(states[k].dim)}

RECURSIVE SumOfDims(_, _)
SumOfDims(states, S) ==
    IF S = {} THEN 0
    ELSE LET k == CHOOSE k \in S : TRUE
         IN  Val(states[k].dim) + SumOfDims(states, S \ {k})

\* q is a / n truncated toward zero.
IsTruncatedQuotient(q, a, n) ==
    /\ Abs(q) * n <= Abs(a)
    /\ Abs(a) < (Abs(q) + 1) * n
    /\ q # 0 => ((q > 0) <=> (a > 0))

\* C7: for a device_states response with at least one member g_get_state
\* returns is_online true, onoff true exactly when some member reports onoff
\* true, and dim the mean of the members' dim values truncated toward zero,
\* members that omit dim or onoff included.
C7_SpaceStateIsMemberMean ==
    (pc = "returned" /\ Len(fnIn) >= 1) =>
        /\ fnOut.exc = "none"
        /\ fnOut.state.is_online = Some(TRUE)
        /\ fnOut.state.onoff =
              Some(\E k \in 1..Len(fnIn) : Has(fnIn[k].onoff) /\ Val(fnIn[k].onoff))
        /\ Has(fnOut.state.dim)
        /\ Reporting(fnIn) # {} =>
              IsTruncatedQuotient(Val(fnOut.state.dim),
                                  SumOfDims(fnIn, Reporting(fnIn)),
                                  Cardinality(Reporting(fnIn)))

ReportStateRan ==
    Done /\ Route(request) = "handle_report_state" /\ HasEndpointFields(request)

\* The device_states response has zero members.
ZeroMembers(res) ==
    res.exc = "none" /\ res.data.type = "object" /\ res.data.states = Some(<<>>)

\* C8: a ReportState on a space whose device_states response has zero members
\* is answered with an INVALID_DIRECTIVE error envelope: the division by zero
\* is a ParentSpaceException, no INTERNAL_ERROR, and no StateReport is produced.
C8_EmptySpaceIsInvalidDirective ==
    (ReportStateRan /\ EndpointType(request) # "device"
     /\ ZeroMembers(g_get_request(vendor.state))) =>
        /\ escaped = "ParentSpaceException"
        /\ IsErrorEnvelope(response)
        /\ ErrorTypeOf(response) = "INVALID_DIRECTIVE"
        /\ response.properties = None

C8_Witness ==
    /\ ReportStateRan
    /\ EndpointType(request) = "space"
    /\ ZeroMembers(g_get_request(vendor.state))
    /\ IsErrorEnvelope(response)

\* The vendor fields the retrievable capabilities of a descriptor translate from.
TranslatedFields(capabilities) ==
    {GooeeName(Val(capabilities[k].properties).name) :
        k \in {i \in 1..Len(capabilities) : Retrievable(capabilities[i])}}

\* The fetched vendor state has no value for the field: the meta of the device
\* has no entry of that name, or no member of the space reports it.
DeviceLacks(res, field) ==
    /\ res.exc = "none" /\ res.data.type = "object" /\ Has(res.data.meta)
    /\ ~Has(StateField(Val(res.data.meta), field))

SpaceLacks(res, field) ==
    /\ res.exc = "none" /\ res.data.type = "object" /\ Has(res.data.states)
    /\ Len(Val(res.data.states)) >= 1
    /\ field \in {"dim", "onoff"}
    /\ \A k \in 1..Len(Val(res.data.states)) :
          ~Has(IF field = "dim" THEN Val(res.data.states)[k].dim
               ELSE Val(res.data.states)[k].onoff)

\* C9: a ReportState, on a device or on a space, whose fetched vendor state
\* lacks a field that a retrievable capability of the endpoint type translates
\* from is answered with an ENDPOINT_UNREACHABLE error envelope; no default is
\* substituted and no StateReport is returned.  (For a space the fields are dim
\* and onoff; is_online is never fetched for a space.  The directive carries a
\* correlation token, so that nothing else fails.)
C9_AbsentFieldIsUnreachable ==
    (ReportStateRan /\ Has(request.correlationToken)) =>
        LET res == g_get_request(vendor.state)
            device == EndpointType(request) = "device"
            capabilities == IF EndpointType(request) = "space"
                            THEN templates.space ELSE templates.device
        IN  (\E field \in TranslatedFields(capabilities) :
                IF device THEN DeviceLacks(res, field) ELSE SpaceLacks(res, field)) =>
                    /\ IsErrorEnvelope(response)
                    /\ ErrorTypeOf(response) = "ENDPOINT_UNREACHABLE"

PowerDirective ==
    /\ Done
    /\ Route(request) = "handle_power_controller"
    /\ request.name \in {"TurnOn", "TurnOff"}
    /\ HasEndpointFields(request)
    /\ Has(request.correlationToken)

\* C10: a TurnOn (TurnOff) directive on a device or space endpoint issues
\* exactly one POST and no GET, of type "on" ("off"), value {transition_time: 2}
\* and the key named by the endpoint type set to the endpointId; a POST that
\* succeeds is answered with powerState "ON" ("OFF") and the correlation token
\* of the directive, a POST that fails is not repeated and is not answered
\* with a success response.
C10_PowerPostOnceAndNoSuccessOnFailure ==
    PowerDirective =>
        LET on == request.name = "TurnOn"
            succeeded == vendor.postStatus \in 200..299
            success ==
                /\ response.shape = "envelope"
                /\ response.name = "Response"
        IN  /\ gets = <<>>
            /\ Len(posts) = 1
            /\ posts[1].type = (IF on THEN "on" ELSE "off")
            /\ posts[1].value = [transition_time |-> 2, level |-> None, delta |-> None]
            /\ posts[1].key = EndpointType(request)
            /\ posts[1].target = EndpointId(request)
            /\ succeeded =>
                  /\ success
                  /\ response.correlationToken = request.correlationToken
                  /\ Val(response.properties) =
                        <<Property("Alexa.PowerController", "powerState",
                                   TextValue(IF on THEN "ON" ELSE "OFF"))>>
            /\ ~succeeded => ~success

BrightnessDirective ==
    /\ Done
    /\ Route(request) = "handle_brightness_controller"
    /\ HasEndpointFields(request)
    /\ Has(request.payload)
    /\ \/ Has(Val(request.payload).brightness)
       \/ Has(Val(request.payload).brightnessDelta)

\* C11: a BrightnessController directive with brightness v issues exactly one
\* POST and no GET, of type "dim" and value {level: v, transition_time: 1}; one
\* with brightnessDelta d and no brightness issues exactly one POST of type
\* "adjust" and value {delta: d, transition_time: 1}.  The POST carries the key
\* named by the endpoint type set to the endpointId, a POST that raises is not
\* repeated, and the response the handler returns has the absolute value of v
\* (of d) as context.properties[0].value.
C11_BrightnessPostAndAbsoluteValue ==
    BrightnessDirective =>
        LET data == Val(request.payload)
            absolute == Has(data.brightness)
            v == IF absolute THEN Val(data.brightness) ELSE Val(data.brightnessDelta)
            returned == /\ StatusException(vendor.postStatus) = "none"
                        /\ Has(request.correlationToken)
        IN  /\ gets = <<>>
            /\ Len(posts) = 1
            /\ posts[1].type = (IF absolute THEN "dim" ELSE "adjust")
            /\ posts[1].value =
                  (IF absolute
                   THEN [transition_time |-> 1, level |-> Some(v), delta |-> None]
                   ELSE [transition_time |-> 1, level |-> None, delta |-> Some(v)])
            /\ posts[1].key = EndpointType(request)
            /\ posts[1].target = EndpointId(request)
            /\ returned <=> (response.shape = "envelope" /\ response.name = "Response")
            /\ returned =>
                  /\ Has(response.properties)
                  /\ Val(response.properties)[1].name = "brightness"
                  /\ Val(response.properties)[1].value =
                        NumberValue(IF v < 0 THEN -v ELSE v)

C11_Witness ==
    /\ BrightnessDirective
    /\ ~Has(Val(request.payload).brightness)
    /\ Val(request.payload).brightnessDelta = Some(-25)
    /\ EndpointType(request) = "space"
    /\ posts # <<>> /\ posts[1].type = "adjust"
    /\ response.name = "Response"
    /\ Val(response.properties)[1].value = NumberValue(25)

\* The positions, in a descriptor, of the capabilities that have a properties
\* block with retrievable true, and the k-th of them in descriptor order.
RetrievableSet(capabilities) ==
    {i \in 1..Len(capabilities) :
        /\ capabilities[i].properties # None
        /\ capabilities[i].properties[1].retrievable}

NthOf(S, k) == CHOOSE i \in S : Cardinality({j \in S : j < i}) = k - 1

IsStateReport(r) == r.shape = "envelope" /\ r.name = "StateReport"

\* C12: the context.properties of a StateReport, for a device or a space, has
\* exactly one entry for each retrievable capability of the descriptor of the
\* endpoint type, in descriptor order and none else (a capability without a
\* properties block or with retrievable false contributes none); the k-th
\* entry has the interface and the name of the k-th retrievable capability and
\* the translation of its vendor field in the fetched state as value.
C12_OnePropertyPerRetrievableCapability ==
    (ReportStateRan /\ IsStateReport(response)) =>
        LET type_ == EndpointType(request)
            capabilities == IF type_ = "space" THEN templates.space ELSE templates.device
            S == RetrievableSet(capabilities)
            state == g_get_state(type_, vendor.state).state
            properties == Val(response.properties)
        IN  /\ escaped = "none"
            /\ Len(properties) = Cardinality(S)
            /\ \A k \in 1..Len(properties) :
                  LET capability == capabilities[NthOf(S, k)]
                      name == Val(capability.properties).name
                  IN  /\ properties[k].namespace = capability.interface
                      /\ properties[k].name = name
                      /\ properties[k].value =
                            TransFunc(name, Val(StateField(state, GooeeName(name))))

\* A StateReport for a space whose descriptor has a capability that is not
\* retrievable (powerLevel) between retrievable ones.
C12_Witness ==
    /\ ReportStateRan
    /\ IsStateReport(response)
    /\ EndpointType(request) = "space"
    /\ \E i \in 1..Len(templates.space) :
          /\ Has(templates.space[i].properties)
          /\ ~Val(templates.space[i].properties).retrievable
    /\ Len(Val(response.properties)) = 3
    /\ Val(response.properties)[2].name = "percentage"
    /\ Val(response.properties)[2].value = NumberValue(50)

\* The pairs (name, namespace) that no branch of the routing accepts.
UnroutedHeader(header) ==
    /\ header.name \notin {"Discover", "ReportState"}
    /\ header.namespace \notin {"Alexa.PowerController", "Alexa.BrightnessController",
                                "Alexa.Authorization"}

\* What the handler the precedence names does with the directive and the
\* vendor answers of the invocation.
SelectedByPrecedence ==
    IF request.name = "Discover" THEN handle_discovery(request, vendor)
    ELSE IF request.name = "ReportState"
         THEN handle_report_state(request, vendor, templates)
    ELSE IF request.namespace = "Alexa.PowerController"
         THEN handle_power_controller(request, vendor)
    ELSE IF request.namespace = "Alexa.BrightnessController"
         THEN handle_brightness_controller(request, vendor)
    ELSE IF request.namespace = "Alexa.Authorization" THEN handle_auth(request)
    ELSE Raised("Exception", <<>>, <<>>)

\* C13: the vendor requests, the outcome and the response of an invocation are
\* those of the one handler the precedence selects: Discover by name whatever
\* the namespace, else ReportState by name whatever the namespace, else
\* PowerController, BrightnessController, Authorization by namespace; any other
\* pair runs no handler, issues no vendor request and raises the unhandled
\* request error, answered with INTERNAL_ERROR when the directive names an
\* endpoint.
C13_RoutingPrecedence ==
    Done =>
        /\ gets = SelectedByPrecedence.gets
        /\ posts = SelectedByPrecedence.posts
        /\ escaped = SelectedByPrecedence.exc
        /\ escaped = "none" => response = SelectedByPrecedence.value
        /\ UnroutedHeader(request) =>
              /\ gets = <<>> /\ posts = <<>>
              /\ escaped = "Exception"
              /\ Has(request.endpoint) =>
                    /\ IsErrorEnvelope(response)
                    /\ ErrorTypeOf(response) = "INTERNAL_ERROR"

\* A Discover in the PowerController namespace, on a full endpoint, is a discovery.
C13_Witness ==
    /\ Done
    /\ request.name = "Discover"
    /\ request.namespace = "Alexa.PowerController"
    /\ HasEndpointFields(request)
    /\ IsDiscoverResponse(response)
    /\ gets # <<>>
    /\ posts = <<>>

-----------------------------------------------------------------------------
(* g_get_request, one iteration of its while loop at a time.  fnIn is the
   chain of pages behind the endpoint; fnOut holds the locals of the function:
   url (the page to request next, 0 for no url), data, the pages requested so
   far, the exception raised and the value returned. *)

MaxPages == 3

PageKinds ==
    {Page(200, JList(<<>>)),
     Page(200, JList(<<Item("space-1", "Kitchen")>>)),
     Page(200, JList(<<Item("space-2", "Hall")>>)),
     Page(200, JDevice(None)),
     Page(401, JText), Page(403, JText), Page(400, JText), Page(404, JText),
     Page(500, JText)}

PageChains == UNION {[1..n -> PageKinds] : n \in 1..MaxPages}

Locals(url, data, log, exc, result) ==
    [url |-> url, data |-> data, log |-> log, exc |-> exc, result |-> result]

InitGet ==
    /\ pc = "loop"
    /\ fnIn \in PageChains
    /\ fnOut = Locals(1, JList(<<>>), <<>>, "none", None)
    /\ request = <<>>
    /\ vendor = NoVendor
    /\ response = NoValue
    /\ gets = <<>>
    /\ posts = <<>>
    /\ telemetry = 0
    /\ escaped = "none"
    /\ SENTRY_CLIENT = FALSE
    /\ templates \in {CHOOSE t \in TemplatePairs : TRUE}

GetUnchanged ==
    UNCHANGED <<fnIn, request, vendor, response, gets, posts, telemetry, escaped,
                SENTRY_CLIENT, templates>>

\* One iteration: the request, the two status checks, the next link, the data.
GetPage ==
    /\ pc = "loop"
    /\ fnOut.url # 0
    /\ LET res == fnIn[fnOut.url]
           log == Append(fnOut.log, fnOut.url)
           exc == IF StatusException(res.status) # "none"
                  THEN StatusException(res.status)
                  ELSE IF res.body.type = "text" THEN "ValueError"
                  ELSE IF res.body.type = "list" /\ fnOut.data.type # "list"
                       THEN "TypeError"
                  ELSE "none"
       IN  IF exc # "none"
           THEN /\ pc' = "raised"
                /\ fnOut' = [fnOut EXCEPT !.log = log, !.exc = exc]
           ELSE /\ pc' = "loop"
                /\ fnOut' = [fnOut EXCEPT
                                !.log = log,
                                !.url = NextLink(fnIn, fnOut.url),
                                !.data = IF res.body.type = "list"
                                         THEN JList(fnOut.data.items \o res.body.items)
                                         ELSE res.body]
    /\ GetUnchanged

\* url is empty: the loop ends and data is returned.
GetReturn ==
    /\ pc = "loop"
    /\ fnOut.url = 0
    /\ pc' = "returned"
    /\ fnOut' = [fnOut EXCEPT !.result = Some(fnOut.data)]
    /\ GetUnchanged

NextGet == GetPage \/ GetReturn

\* requests.get blocks until the page is answered, so an iteration that can
\* run does run.
SpecGet == InitGet /\ [][NextGet]_vars /\ WF_vars(NextGet)

GetOver == pc \in {"returned", "raised"}

IsListPage(page) == page.status = 200 /\ page.body.type = "list"

\* The first page of the chain answered 401/403/400/404, 0 when there is none.
FirstRefusal(pages) ==
    IF \E k \in 1..Len(pages) : pages[k].status \in {401, 403, 400, 404}
    THEN CHOOSE k \in 1..Len(pages) :
            /\ pages[k].status \in {401, 403, 400, 404}
            /\ \A j \in 1..(k - 1) : pages[j].status \notin {401, 403, 400, 404}
    ELSE 0

\* The items of pages 1..n, in page order.
RECURSIVE ItemsUpTo(_, _)
ItemsUpTo(pages, n) ==
    IF n = 0 THEN <<>> ELSE ItemsUpTo(pages, n - 1) \o pages[n].body.items

\* The chains C14 speaks of: list pages up to the end of the chain or up to the
\* first page answered 401/403/400/404, or one single page holding an object.
C14_Chain(pages) ==
    \/ \A k \in 1..(IF FirstRefusal(pages) = 0 THEN Len(pages)
                    ELSE FirstRefusal(pages) - 1) : IsListPage(pages[k])
    \/ Len(pages) = 1 /\ pages[1].status = 200 /\ pages[1].body.type = "object"

C14_State ==
    /\ fnOut.log = [k \in 1..Len(fnOut.log) |-> k]
    /\ (GetOver /\ C14_Chain(fnIn)) =>
          LET k == FirstRefusal(fnIn)
          IN  IF k = 0
              THEN /\ pc = "returned"
                   /\ Len(fnOut.log) = Len(fnIn)
                   /\ fnOut.result =
                         Some(IF IsListPage(fnIn[1])
                              THEN JList(ItemsUpTo(fnIn, Len(fnIn)))
                              ELSE fnIn[1].body)
              ELSE /\ pc = "raised"
                   /\ Len(fnOut.log) = k
                   /\ fnOut.result = None
                   /\ fnOut.exc = (IF fnIn[k].status \in {401, 403}
                                   THEN "AuthException" ELSE "BadRequestException")
    /\ GetOver =>
          LET res == g_get_request(fnIn)
          IN  /\ res.requested = Len(fnOut.log)
              /\ res.exc = fnOut.exc
              /\ pc = "returned" => fnOut.result = Some(res.data)

\* C14: g_get_request ends on every finite chain of pages.  It requests the
\* pages once each in link order; on a chain of list pages it stops at the page
\* without a next link and returns the items of all pages in page order (the
\* object itself for a single page that holds an object); when a page, the
\* first or a later one, is answered 401/403 (400/404) it raises AuthException
\* (BadRequestException) right there, requests no further page and returns
\* nothing.  The loop agrees with GetLoop throughout.
C14_PaginationDrains == [](C14_State) /\ <>(GetOver)

\* Three list pages drained into one list, in page order.
C14_Witness ==
    /\ pc = "returned"
    /\ Len(fnIn) = 3
    /\ fnOut.log = <<1, 2, 3>>
    /\ Has(fnOut.result)
    /\ Val(fnOut.result).items = <<Item("space-2", "Hall"), Item("space-1", "Kitchen")>>

-----------------------------------------------------------------------------

\* A directive the PowerController handler runs on, named anything but TurnOn.
PowerDirectiveNotTurnOn ==
    /\ Done
    /\ request.namespace = "Alexa.PowerController"
    /\ request.name \notin {"Discover", "ReportState", "TurnOn"}
    /\ HasEndpointFields(request)

\* C15: a directive routed to the PowerController handler under any name other
\* than TurnOn, TurnOff or not, issues exactly one POST, of type "off"; the
\* handler rejects no name: unless the POST raises (or the directive has no
\* correlation token to echo) the answer is a Response with powerState "OFF",
\* and no error other than those two comes out.
C15_AnyOtherNameTurnsOff ==
    PowerDirectiveNotTurnOn =>
        /\ gets = <<>>
        /\ Len(posts) = 1
        /\ posts[1].type = "off"
        /\ posts[1].name = "Alexa OFF request"
        /\ escaped = (IF vendor.postStatus \in {401, 403} THEN "AuthException"
                      ELSE IF vendor.postStatus \in {400, 404} THEN "BadRequestException"
                      ELSE IF request.correlationToken = None THEN "KeyError"
                      ELSE "none")
        /\ escaped = "none" =>
              /\ response.shape = "envelope" /\ response.name = "Response"
              /\ Val(response.properties) =
                    <<Property("Alexa.PowerController", "powerState", TextValue("OFF"))>>

\* A name the skill does not know, in the PowerController namespace.
C15_Witness ==
    /\ PowerDirectiveNotTurnOn
    /\ request.name = "unhandled"
    /\ posts # <<>> /\ posts[1].type = "off"
    /\ response.name = "Response"
    /\ Val(response.properties)[1].value = TextValue("OFF")

====
